---- MODULE Spec2Model ----
(***************************************************************************)
(* Model of backend/src/api/mempool-blocks.ts (class MempoolBlocks): the   *)
(* synchronous fast path (updateMempoolBlocks, calculateMempoolBlocks,     *)
(* dataToMempoolBlocks), the delta computer (calculateMempoolDeltas) and   *)
(* the asynchronous template path ($makeBlockTemplates,                    *)
(* $updateBlockTemplates, processBlockTemplates) with its worker thread.   *)
(*                                                                         *)
(* Numbers.  Fee rates are JavaScript doubles fee / (weight / 4); they are *)
(* modelled as reduced fractions <<n, d>>, so that === and < on rates are  *)
(* exact.  undefined is the rate <<0, 0>>.  All weights of the model are   *)
(* multiples of 8, so vsize = weight / 4 and vsize / 2 are integers.       *)
(***************************************************************************)
EXTENDS Integers, Sequences, FiniteSets, TLC

\* ------------------------------------------------------------------------
\* Bounds of the model
\* ------------------------------------------------------------------------
\* config.MEMPOOL.MEMPOOL_BLOCKS_AMOUNT is drawn from 1..MaxBlocksAmount
MaxBlocksAmount == 2
\* number of projection calls (updateMempoolBlocks, $makeBlockTemplates,
\* $updateBlockTemplates) in one run; every worker is spawned by a call
MaxCalls == 2

\* txids: one hex digit each, compared as the code compares strings.
\* TxIds are the transactions of the orchestrator's specification Spec.
TxIds == {1, 2}
\* PublishTxIds are those of the specification SpecPublish.
PublishTxIds == {1, 2, 3}
\* CapTxIds come and go in the specification SpecCap, whose mempool always
\* holds the six transactions of CapFillerIds (24,000,000 weight units).
CapTxIds == {4, 5, 6}
CapFillerIds == 7..12

\* ------------------------------------------------------------------------
\* Configuration and literals of the source
\* ------------------------------------------------------------------------
\* config.MEMPOOL.BLOCK_WEIGHT_UNITS (default)
BLOCK_WEIGHT_UNITS == 4000000
\* the literal 4000000 * 8 of the resolver loop
ResolveWeightCap == 4000000 * 8

\* ------------------------------------------------------------------------
\* Rates: reduced fractions
\* ------------------------------------------------------------------------
RECURSIVE Gcd(_, _)
Gcd(a, b) == IF b = 0 THEN a ELSE Gcd(b, a % b)

\* undefined (an absent rate)
Undef == <<0, 0>>

\* n / d as a reduced fraction, d > 0
Frac(n, d) == LET g == Gcd(n, d) IN <<n \div g, d \div g>>

\* fee / (weight / 4)
FeeRate(fee, weight) == Frac(4 * fee, weight)

\* a < b on rates
RateLess(a, b) == a[1] * b[2] < b[1] * a[2]

\* !rate : undefined and 0 are falsy
Falsy(r) == r[1] = 0

\* ------------------------------------------------------------------------
\* Records
\* ------------------------------------------------------------------------
\* null for bestDescendant
NoRelative == [txid |-> 0, fee |-> 0, weight |-> 0]
\* undefined for position
NoPosition == [block |-> -1, vsize |-> 0]

\* A TransactionExtended as the ingestion layer delivers it: fee, weight,
\* size and vin are inputs; the projection fields are not set yet.
NewTx(id, fee, weight, vin) ==
  [ txid |-> id, fee |-> fee, weight |-> weight, vsize |-> weight \div 4,
    size |-> weight \div 4, feePerVsize |-> FeeRate(fee, weight),
    effectiveFeePerVsize |-> Undef, vin |-> vin,
    ancestors |-> <<>>, descendants |-> <<>>, bestDescendant |-> NoRelative,
    cpfpChecked |-> FALSE, position |-> NoPosition, deleteAfter |-> FALSE ]

\* Common.stripTransaction: the compact client-facing form
StripTransaction(tx) ==
  [ txid |-> tx.txid, fee |-> tx.fee, vsize |-> tx.weight \div 4,
    rate |-> tx.effectiveFeePerVsize ]

\* ------------------------------------------------------------------------
\* Sequence helpers
\* ------------------------------------------------------------------------
RECURSIVE SumSeq(_)
SumSeq(s) == IF s = <<>> THEN 0 ELSE Head(s) + SumSeq(Tail(s))

Range(s) == { s[i] : i \in DOMAIN s }

RECURSIVE Concat(_)
Concat(ss) == IF ss = <<>> THEN <<>> ELSE Head(ss) \o Concat(Tail(ss))

\* the elements of a set of txids as an array, in ascending order: the
\* order in which the model lists the elements of an input array (vin)
Ascending(S) ==
  [ i \in 1..Cardinality(S) |->
      CHOOSE x \in S : Cardinality({ y \in S : y < x }) = i - 1 ]

\* the arrays that hold every element of S once, in any order
Orderings(S) ==
  { s \in [1..Cardinality(S) -> S] : \A i, j \in DOMAIN s : i # j => s[i] # s[j] }

\* ------------------------------------------------------------------------
\* Relatives resolver (Common.setRelativesAndGetCpfpInfo, Common.findAllParents)
\* A pool is a function from the txids of the mempool to their records.
\* ------------------------------------------------------------------------
Relative(tx) == [txid |-> tx.txid, fee |-> tx.fee, weight |-> tx.weight]

\* the bestDescendant a parent gets from its child tx, when it gets one
LiftParent(tx, parentTx) ==
  LET bd == tx.bestDescendant IN
  IF bd # NoRelative /\ RateLess(parentTx.feePerVsize, FeeRate(bd.fee, bd.weight))
  THEN IF parentTx.bestDescendant # NoRelative
          /\ parentTx.bestDescendant.fee < tx.fee + bd.fee
       THEN [txid |-> tx.txid, fee |-> tx.fee + bd.fee,
             weight |-> tx.weight + bd.weight]
       ELSE parentTx.bestDescendant
  ELSE IF RateLess(parentTx.feePerVsize, tx.feePerVsize)
       THEN Relative(tx)
       ELSE parentTx.bestDescendant

\* findAllParents(tx, memPool) from input i of tx.vin on, with the parents
\* found so far: the parents (txids, in discovery order) and the pool with
\* the bestDescendant of every parent visited updated.
RECURSIVE FindAllParents(_, _, _, _)
FindAllParents(id, i, parents, pool) ==
  IF i > Len(pool[id].vin) THEN [parents |-> parents, pool |-> pool]
  ELSE LET p == pool[id].vin[i] IN
       IF p \in Range(parents) \/ p \notin DOMAIN pool
       THEN FindAllParents(id, i + 1, parents, pool)
       ELSE LET lifted == [pool EXCEPT ![p].bestDescendant =
                                          LiftParent(pool[id], pool[p])]
                sub    == FindAllParents(p, 1, <<>>, lifted)
            IN FindAllParents(id, i + 1, parents \o <<p>> \o sub.parents,
                              sub.pool)

\* the ancestors found, each once, in discovery order
RECURSIVE Closure(_)
Closure(parents) ==
  IF parents = <<>> THEN <<>>
  ELSE LET front == Closure(SubSeq(parents, 1, Len(parents) - 1))
           last  == parents[Len(parents)]
       IN IF last \in Range(front) THEN front ELSE Append(front, last)

\* the rate of the package of tx: tx itself, the given ancestors and the
\* bestDescendant that lifts tx (NoRelative adds nothing)
PackageRate(tx, ancestorIds, pool) ==
  LET bd     == tx.bestDescendant
      weight == tx.weight
                + SumSeq([k \in DOMAIN ancestorIds |-> pool[ancestorIds[k]].weight])
                + bd.weight
      fees   == tx.fee
                + SumSeq([k \in DOMAIN ancestorIds |-> pool[ancestorIds[k]].fee])
                + bd.fee
  IN FeeRate(fees, weight)

\* the greater of two rates
RateMax(a, b) == IF RateLess(a, b) THEN b ELSE a

\* the resolver with a package made of the ancestors whose feePerVsize is
\* below the effectiveFeePerVsize the transaction carries when it is called
SetRelativesBelowCarriedRate(id, pool) ==
  LET found == FindAllParents(id, 1, <<>>, pool)
      p1    == found.pool
      tx    == p1[id]
      lower == SelectSeq(Closure(found.parents),
                 LAMBDA q : RateLess(p1[q].feePerVsize, tx.effectiveFeePerVsize))
  IN [p1 EXCEPT ![id].ancestors =
                   [k \in DOMAIN found.parents |-> Relative(p1[found.parents[k]])],
                ![id].effectiveFeePerVsize =
                   RateMax(tx.feePerVsize, PackageRate(tx, lower, p1)),
                ![id].cpfpChecked = TRUE]

\* Common.setRelativesAndGetCpfpInfo(tx, memPool): the pool afterwards.
\* effectiveFeePerVsize is recomputed as the maximum of the transaction's
\* own feePerVsize and the rate of its package over the ancestor closure
\* (spec 4.1 item 3). For the child of scenario S2 this is its own rate 20,
\* where the scenario lists the package rate 10; the parent gets 10 in both.
SetRelativesAndGetCpfpInfo(id, pool) ==
  LET found == FindAllParents(id, 1, <<>>, pool)
      p1    == found.pool
      tx    == p1[id]
  IN [p1 EXCEPT ![id].ancestors =
                   [k \in DOMAIN found.parents |-> Relative(p1[found.parents[k]])],
                ![id].effectiveFeePerVsize =
                   RateMax(tx.feePerVsize,
                           PackageRate(tx, Closure(found.parents), p1)),
                ![id].cpfpChecked = TRUE]

\* ------------------------------------------------------------------------
\* dataToMempoolBlocks (medianFee and feeRange come from an external
\* statistics helper and are not part of the model)
\* ------------------------------------------------------------------------
\* the weight of the first i transactions
WeightUpTo(txs, i) == SumSeq([k \in 1..i |-> txs[k].weight])

\* fitTransactions with < in place of <=
FitTransactionsStrict(txs) ==
  LET fits(i) == (WeightUpTo(txs, i) + txs[i].weight) * 10
                   < BLOCK_WEIGHT_UNITS * 12
      kept   == SelectSeq([i \in DOMAIN txs |-> i], fits)
  IN [k \in DOMAIN kept |-> txs[kept[k]]]

\* fitTransactions with the test on the running total alone
FitTransactionsRunningTotal(txs) ==
  LET fits(i) == WeightUpTo(txs, i) * 10 <= BLOCK_WEIGHT_UNITS * 12
      kept   == SelectSeq([i \in DOMAIN txs |-> i], fits)
  IN [k \in DOMAIN kept |-> txs[kept[k]]]

\* fitTransactions: the running total already holds tx.weight when the
\* test adds it once more
FitTransactions(txs) ==
  LET fits(i) == (WeightUpTo(txs, i) + txs[i].weight) * 10
                   <= BLOCK_WEIGHT_UNITS * 12
      kept   == SelectSeq([i \in DOMAIN txs |-> i], fits)
  IN [k \in DOMAIN kept |-> txs[kept[k]]]

DataToMempoolBlocks(txs) ==
  LET fit == FitTransactions(txs) IN
  [ blockSize      |-> SumSeq([k \in DOMAIN txs |-> txs[k].size]),
    blockVSize     |-> WeightUpTo(txs, Len(txs)) \div 4,
    nTx            |-> Len(txs),
    totalFees      |-> SumSeq([k \in DOMAIN txs |-> txs[k].fee]),
    transactionIds |-> [k \in DOMAIN txs |-> txs[k].txid],
    transactions   |-> [k \in DOMAIN fit |-> StripTransaction(fit[k])] ]

\* PackTx with "transactions = [tx]" forgotten: the new block keeps the
\* transactions of the block just closed
PackTxKeepList(id, st, amount) ==
  LET tx == st.pool[id] IN
  IF st.blockWeight + tx.weight <= BLOCK_WEIGHT_UNITS
     \/ Len(st.mempoolBlocks) = amount - 1
  THEN LET placed == [tx EXCEPT !.position =
                        [block |-> Len(st.mempoolBlocks),
                         vsize |-> st.blockVsize + tx.vsize \div 2]]
       IN [ mempoolBlocks |-> st.mempoolBlocks,
            blockWeight   |-> st.blockWeight + tx.weight,
            blockVsize    |-> st.blockVsize + tx.vsize,
            transactions  |-> Append(st.transactions, id),
            pool          |-> [st.pool EXCEPT ![id] = placed] ]
  ELSE LET done   == Append(st.mempoolBlocks,
                       DataToMempoolBlocks(
                         [k \in DOMAIN st.transactions |-> st.pool[st.transactions[k]]]))
           placed == [tx EXCEPT !.position =
                        [block |-> Len(done), vsize |-> 0 + tx.vsize \div 2]]
       IN [ mempoolBlocks |-> done,
            blockWeight   |-> tx.weight,
            blockVsize    |-> tx.vsize,
            transactions  |-> Append(st.transactions, id),
            pool          |-> [st.pool EXCEPT ![id] = placed] ]

\* PackTx testing the weight of the block before the transaction is added
PackTxFitBefore(id, st, amount) ==
  LET tx == st.pool[id] IN
  IF st.blockWeight <= BLOCK_WEIGHT_UNITS
     \/ Len(st.mempoolBlocks) = amount - 1
  THEN LET placed == [tx EXCEPT !.position =
                        [block |-> Len(st.mempoolBlocks),
                         vsize |-> st.blockVsize + tx.vsize \div 2]]
       IN [ mempoolBlocks |-> st.mempoolBlocks,
            blockWeight   |-> st.blockWeight + tx.weight,
            blockVsize    |-> st.blockVsize + tx.vsize,
            transactions  |-> Append(st.transactions, id),
            pool          |-> [st.pool EXCEPT ![id] = placed] ]
  ELSE LET done   == Append(st.mempoolBlocks,
                       DataToMempoolBlocks(
                         [k \in DOMAIN st.transactions |-> st.pool[st.transactions[k]]]))
           placed == [tx EXCEPT !.position =
                        [block |-> Len(done), vsize |-> 0 + tx.vsize \div 2]]
       IN [ mempoolBlocks |-> done,
            blockWeight   |-> tx.weight,
            blockVsize    |-> tx.vsize,
            transactions  |-> <<id>>,
            pool          |-> [st.pool EXCEPT ![id] = placed] ]

\* PackTx without the test for the last permitted block
PackTxNoLast(id, st, amount) ==
  LET tx == st.pool[id] IN
  IF st.blockWeight + tx.weight <= BLOCK_WEIGHT_UNITS
  THEN LET placed == [tx EXCEPT !.position =
                        [block |-> Len(st.mempoolBlocks),
                         vsize |-> st.blockVsize + tx.vsize \div 2]]
       IN [ mempoolBlocks |-> st.mempoolBlocks,
            blockWeight   |-> st.blockWeight + tx.weight,
            blockVsize    |-> st.blockVsize + tx.vsize,
            transactions  |-> Append(st.transactions, id),
            pool          |-> [st.pool EXCEPT ![id] = placed] ]
  ELSE LET done   == Append(st.mempoolBlocks,
                       DataToMempoolBlocks(
                         [k \in DOMAIN st.transactions |-> st.pool[st.transactions[k]]]))
           placed == [tx EXCEPT !.position =
                        [block |-> Len(done), vsize |-> 0 + tx.vsize \div 2]]
       IN [ mempoolBlocks |-> done,
            blockWeight   |-> tx.weight,
            blockVsize    |-> tx.vsize,
            transactions  |-> <<id>>,
            pool          |-> [st.pool EXCEPT ![id] = placed] ]

\* PackTx with "blockVsize = 0" forgotten when a block is closed
PackTxKeepVsize(id, st, amount) ==
  LET tx == st.pool[id] IN
  IF st.blockWeight + tx.weight <= BLOCK_WEIGHT_UNITS
     \/ Len(st.mempoolBlocks) = amount - 1
  THEN LET placed == [tx EXCEPT !.position =
                        [block |-> Len(st.mempoolBlocks),
                         vsize |-> st.blockVsize + tx.vsize \div 2]]
       IN [ mempoolBlocks |-> st.mempoolBlocks,
            blockWeight   |-> st.blockWeight + tx.weight,
            blockVsize    |-> st.blockVsize + tx.vsize,
            transactions  |-> Append(st.transactions, id),
            pool          |-> [st.pool EXCEPT ![id] = placed] ]
  ELSE LET done   == Append(st.mempoolBlocks,
                       DataToMempoolBlocks(
                         [k \in DOMAIN st.transactions |-> st.pool[st.transactions[k]]]))
           placed == [tx EXCEPT !.position =
                        [block |-> Len(done), vsize |-> st.blockVsize + tx.vsize \div 2]]
       IN [ mempoolBlocks |-> done,
            blockWeight   |-> tx.weight,
            blockVsize    |-> st.blockVsize + tx.vsize,
            transactions  |-> <<id>>,
            pool          |-> [st.pool EXCEPT ![id] = placed] ]

\* ------------------------------------------------------------------------
\* calculateMempoolBlocks
\* ------------------------------------------------------------------------
\* One step of the forEach over transactionsSorted.  st holds the locals
\* mempoolBlocks, blockWeight, blockVsize, transactions, and the pool whose
\* records get their position.
PackTx(id, st, amount) ==
  LET tx == st.pool[id] IN
  IF st.blockWeight + tx.weight <= BLOCK_WEIGHT_UNITS
     \/ Len(st.mempoolBlocks) = amount - 1
  THEN LET placed == [tx EXCEPT !.position =
                        [block |-> Len(st.mempoolBlocks),
                         vsize |-> st.blockVsize + tx.vsize \div 2]]
       IN [ mempoolBlocks |-> st.mempoolBlocks,
            blockWeight   |-> st.blockWeight + tx.weight,
            blockVsize    |-> st.blockVsize + tx.vsize,
            transactions  |-> Append(st.transactions, id),
            pool          |-> [st.pool EXCEPT ![id] = placed] ]
  ELSE LET done   == Append(st.mempoolBlocks,
                       DataToMempoolBlocks(
                         [k \in DOMAIN st.transactions |-> st.pool[st.transactions[k]]]))
           placed == [tx EXCEPT !.position =
                        [block |-> Len(done), vsize |-> 0 + tx.vsize \div 2]]
       IN [ mempoolBlocks |-> done,
            blockWeight   |-> tx.weight,
            blockVsize    |-> tx.vsize,
            transactions  |-> <<id>>,
            pool          |-> [st.pool EXCEPT ![id] = placed] ]

RECURSIVE PackLoop(_, _, _, _)
PackLoop(sorted, i, st, amount) ==
  IF i > Len(sorted) THEN st
  ELSE PackLoop(sorted, i + 1, PackTx(sorted[i], st, amount), amount)

\* calculateMempoolBlocks(transactionsSorted): the blocks, and the pool with
\* the positions assigned
CalculateMempoolBlocks(sorted, pool, amount) ==
  LET st == PackLoop(sorted, 1,
              [ mempoolBlocks |-> <<>>, blockWeight |-> 0, blockVsize |-> 0,
                transactions |-> <<>>, pool |-> pool ], amount)
  IN [ blocks |-> IF st.transactions # <<>>
                  THEN Append(st.mempoolBlocks,
                         DataToMempoolBlocks(
                           [k \in DOMAIN st.transactions |-> st.pool[st.transactions[k]]]))
                  ELSE st.mempoolBlocks,
       pool   |-> st.pool ]

\* ------------------------------------------------------------------------
\* updateMempoolBlocks: the part before the results are saved
\* ------------------------------------------------------------------------
\* "Clear bestDescendants & ancestors"
ClearTx(tx) ==
  [tx EXCEPT !.bestDescendant = NoRelative, !.ancestors = <<>>,
             !.cpfpChecked = FALSE,
             !.effectiveFeePerVsize =
                IF Falsy(tx.effectiveFeePerVsize) THEN tx.feePerVsize
                ELSE tx.effectiveFeePerVsize]

\* memPoolArray.forEach of the clearing, from element i of the array on
RECURSIVE ClearLoop(_, _, _)
ClearLoop(keys, i, pool) ==
  IF i > Len(keys) THEN pool
  ELSE ClearLoop(keys, i + 1, [pool EXCEPT ![keys[i]] = ClearTx(@)])

\* the comparator of the first sort returns a negative number for (a, b)
FirstBefore(a, b) ==
  IF a.feePerVsize = b.feePerVsize THEN a.txid < b.txid
  ELSE RateLess(b.feePerVsize, a.feePerVsize)

\* the comparator of the final sort returns a negative number for (a, b)
FinalBefore(a, b) ==
  IF a.effectiveFeePerVsize = b.effectiveFeePerVsize THEN a.txid < b.txid
  ELSE RateLess(b.effectiveFeePerVsize, a.effectiveFeePerVsize)

\* Array.prototype.sort on an array of txids that is sorted up to its last
\* element: a stable insertion of the last element.  final selects the
\* comparator of the final sort.
SortedBefore(a, b, pool, final) ==
  IF final THEN FinalBefore(pool[a], pool[b]) ELSE FirstBefore(pool[a], pool[b])

\* x inserted into the sorted array before the first element it precedes
RECURSIVE InsertSorted(_, _, _, _)
InsertSorted(x, sorted, pool, final) ==
  IF sorted = <<>> THEN <<x>>
  ELSE IF SortedBefore(x, Head(sorted), pool, final) THEN <<x>> \o sorted
  ELSE <<Head(sorted)>> \o InsertSorted(x, Tail(sorted), pool, final)

RECURSIVE ArraySort(_, _, _)
ArraySort(arr, pool, final) ==
  IF arr = <<>> THEN <<>>
  ELSE InsertSorted(arr[Len(arr)],
                    ArraySort(SubSeq(arr, 1, Len(arr) - 1), pool, final),
                    pool, final)

\* memPoolArray (txids) after the first sort; keys is the key order of the
\* mempool object, the order in which "for (const i in latestMempool)"
\* filled the array
FirstSort(keys, pool) == ArraySort(keys, pool, FALSE)

\* memPoolArray (txids) after the final sort, which sorts the array the
\* first sort left
FinalSort(keys, pool) == ArraySort(FirstSort(keys, pool), pool, TRUE)

\* the forEach that calls the resolver until the running weight passes the cap
RECURSIVE ResolveLoop(_, _, _, _)
ResolveLoop(order, i, sizes, pool) ==
  IF i > Len(order) THEN pool
  ELSE LET s == sizes + pool[order[i]].weight IN
       IF s > ResolveWeightCap
       THEN ResolveLoop(order, i + 1, s, pool)
       ELSE ResolveLoop(order, i + 1, s,
                        SetRelativesAndGetCpfpInfo(order[i], pool))

\* the pool after the clearing and the resolver loop
Resolved(keys, memPool) ==
  LET cleared == ClearLoop(keys, 1, memPool)
  IN ResolveLoop(FirstSort(keys, cleared), 1, 0, cleared)

\* updateMempoolBlocks up to "const blocks = ...": the blocks and the pool
ProjectFast(keys, memPool, amount) ==
  LET resolved == Resolved(keys, memPool)
  IN CalculateMempoolBlocks(FinalSort(keys, resolved), resolved, amount)

\* ------------------------------------------------------------------------
\* calculateMempoolDeltas
\* ------------------------------------------------------------------------
\* prevIds[txid]: the last transaction of prev with that txid
LastWithTxid(txs, id) ==
  txs[CHOOSE k \in DOMAIN txs :
        txs[k].txid = id /\ \A m \in DOMAIN txs : txs[m].txid = id => m <= k]

\* DeltaBoth with removed tested against the previous block's own txids
DeltaBothRemovedOwn(prevTxs, newTxs) ==
  LET prevIds == { prevTxs[k].txid : k \in DOMAIN prevTxs }
      gone    == SelectSeq(prevTxs, LAMBDA tx : tx.txid \notin prevIds)
      rated   == SelectSeq(newTxs, LAMBDA tx :
                   tx.txid \in prevIds
                   /\ tx.rate # LastWithTxid(prevTxs, tx.txid).rate)
  IN [ added   |-> SelectSeq(newTxs, LAMBDA tx : tx.txid \notin prevIds),
       removed |-> [k \in DOMAIN gone |-> gone[k].txid],
       changed |-> [k \in DOMAIN rated |->
                      [txid |-> rated[k].txid, rate |-> rated[k].rate]] ]

\* DeltaBoth without the comparison of the rates: every transaction of both
\* blocks is listed as changed
DeltaBothAllChanged(prevTxs, newTxs) ==
  LET prevIds == { prevTxs[k].txid : k \in DOMAIN prevTxs }
      newIds  == { newTxs[k].txid : k \in DOMAIN newTxs }
      gone    == SelectSeq(prevTxs, LAMBDA tx : tx.txid \notin newIds)
      rated   == SelectSeq(newTxs, LAMBDA tx : tx.txid \in prevIds)
  IN [ added   |-> SelectSeq(newTxs, LAMBDA tx : tx.txid \notin prevIds),
       removed |-> [k \in DOMAIN gone |-> gone[k].txid],
       changed |-> [k \in DOMAIN rated |->
                      [txid |-> rated[k].txid, rate |-> rated[k].rate]] ]

\* DeltaBoth reporting the previous rate of a changed transaction
DeltaBothPrevRate(prevTxs, newTxs) ==
  LET prevIds == { prevTxs[k].txid : k \in DOMAIN prevTxs }
      newIds  == { newTxs[k].txid : k \in DOMAIN newTxs }
      gone    == SelectSeq(prevTxs, LAMBDA tx : tx.txid \notin newIds)
      rated   == SelectSeq(newTxs, LAMBDA tx :
                   tx.txid \in prevIds
                   /\ tx.rate # LastWithTxid(prevTxs, tx.txid).rate)
  IN [ added   |-> SelectSeq(newTxs, LAMBDA tx : tx.txid \notin prevIds),
       removed |-> [k \in DOMAIN gone |-> gone[k].txid],
       changed |-> [k \in DOMAIN rated |->
                      [txid |-> rated[k].txid,
                       rate |-> LastWithTxid(prevTxs, rated[k].txid).rate]] ]

\* the delta of one index where both blocks exist
DeltaBoth(prevTxs, newTxs) ==
  LET prevIds == { prevTxs[k].txid : k \in DOMAIN prevTxs }
      newIds  == { newTxs[k].txid : k \in DOMAIN newTxs }
      gone    == SelectSeq(prevTxs, LAMBDA tx : tx.txid \notin newIds)
      rated   == SelectSeq(newTxs, LAMBDA tx :
                   tx.txid \in prevIds
                   /\ tx.rate # LastWithTxid(prevTxs, tx.txid).rate)
  IN [ added   |-> SelectSeq(newTxs, LAMBDA tx : tx.txid \notin prevIds),
       removed |-> [k \in DOMAIN gone |-> gone[k].txid],
       changed |-> [k \in DOMAIN rated |->
                      [txid |-> rated[k].txid, rate |-> rated[k].rate]] ]

\* the delta pushed for index i (1-based here)
DeltaAt(prevBlocks, mempoolBlocks, i) ==
  IF i <= Len(mempoolBlocks) /\ i > Len(prevBlocks)
  THEN [ added |-> mempoolBlocks[i].transactions, removed |-> <<>>,
         changed |-> <<>> ]
  ELSE IF i > Len(mempoolBlocks) /\ i <= Len(prevBlocks)
  THEN [ added |-> <<>>,
         removed |-> [k \in DOMAIN prevBlocks[i].transactions |->
                        prevBlocks[i].transactions[k].txid],
         changed |-> <<>> ]
  ELSE DeltaBoth(prevBlocks[i].transactions, mempoolBlocks[i].transactions)

Max(a, b) == IF a >= b THEN a ELSE b

CalculateMempoolDeltas(prevBlocks, mempoolBlocks) ==
  [ i \in 1..Max(Len(mempoolBlocks), Len(prevBlocks)) |->
      DeltaAt(prevBlocks, mempoolBlocks, i) ]

\* ------------------------------------------------------------------------
\* Template path: the stripped records and processBlockTemplates
\* ------------------------------------------------------------------------
\* the ThreadTransaction built from a mempool entry
StripForThread(entry) ==
  [ txid |-> entry.txid, fee |-> entry.fee, weight |-> entry.weight,
    feePerVsize |-> FeeRate(entry.fee, entry.weight),
    effectiveFeePerVsize |-> FeeRate(entry.fee, entry.weight),
    vin |-> entry.vin ]

\* strippedMempool of $makeBlockTemplates: the entries without deleteAfter
StrippedMempool(newMempool) ==
  LET live == { id \in DOMAIN newMempool : ~newMempool[id].deleteAfter }
  IN [ id \in live |-> StripForThread(newMempool[id]) ]

\* "filter out stale transactions"
FilterStale(blocks, newMempool) ==
  [ b \in DOMAIN blocks |->
      SelectSeq(blocks[b], LAMBDA tx : tx.txid \in DOMAIN newMempool) ]

\* "cluster.forEach(txid => ...)" from member k on: acc holds matched and
\* the ancestors and descendants collected so far for transaction id
RECURSIVE WalkCluster(_, _, _, _, _)
WalkCluster(cluster, k, id, pool, acc) ==
  IF k > Len(cluster) THEN acc
  ELSE LET txid == cluster[k] IN
       IF txid \notin DOMAIN pool
       THEN WalkCluster(cluster, k + 1, id, pool, acc)
       ELSE IF txid = id
       THEN WalkCluster(cluster, k + 1, id, pool, [acc EXCEPT !.matched = TRUE])
       ELSE IF acc.matched
       THEN WalkCluster(cluster, k + 1, id, pool,
              [acc EXCEPT !.descendants = Append(@, Relative(pool[txid]))])
       ELSE WalkCluster(cluster, k + 1, id, pool,
              [acc EXCEPT !.ancestors = Append(@, Relative(pool[txid]))])

\* "if (tx.cpfpRoot && tx.cpfpRoot in clusters) { ... }": the record of the
\* result transaction tx afterwards (cpfpRoot 0 is an absent cpfpRoot)
EnrichFromCluster(rec, tx, pool, clusters) ==
  IF tx.cpfpRoot # 0 /\ tx.cpfpRoot \in DOMAIN clusters
  THEN LET walked == WalkCluster(clusters[tx.cpfpRoot], 1, tx.txid, pool,
                       [matched |-> FALSE, ancestors |-> <<>>, descendants |-> <<>>])
       IN [rec EXCEPT !.ancestors = walked.ancestors,
                      !.descendants = walked.descendants,
                      !.bestDescendant = NoRelative]
  ELSE rec

\* the inner forEach of processBlockTemplates over block (1-based index b),
\* from transaction i on
RECURSIVE PlaceBlock(_, _, _, _, _, _)
PlaceBlock(block, b, i, runningVsize, pool, clusters) ==
  IF i > Len(block) THEN pool
  ELSE LET tx == block[i] IN
       IF tx.txid \in DOMAIN pool
       THEN LET rec == pool[tx.txid]
                pos == [rec EXCEPT
                          !.position = [block |-> b - 1,
                                        vsize |-> runningVsize + rec.vsize \div 2],
                          !.effectiveFeePerVsize =
                             IF tx.effectiveFeePerVsize # Undef
                             THEN tx.effectiveFeePerVsize ELSE @]
                enr == EnrichFromCluster(pos, tx, [pool EXCEPT ![tx.txid] = pos],
                                         clusters)
                upd == [enr EXCEPT !.cpfpChecked = tx.cpfpChecked]
            IN PlaceBlock(block, b, i + 1, runningVsize + rec.vsize,
                          [pool EXCEPT ![tx.txid] = upd], clusters)
       ELSE PlaceBlock(block, b, i + 1, runningVsize, pool, clusters)

\* the outer forEach of processBlockTemplates, from block b on
RECURSIVE PlaceBlocks(_, _, _, _)
PlaceBlocks(blocks, b, pool, clusters) ==
  IF b > Len(blocks) THEN pool
  ELSE PlaceBlocks(blocks, b + 1,
                   PlaceBlock(blocks[b], b, 1, 0, pool, clusters), clusters)

\* processBlockTemplates up to "const mempoolBlocks = ...": the blocks and
\* the pool with positions, rates and relatives written back
ProcessBlockTemplates(pool, blocks, clusters) ==
  LET placed == PlaceBlocks(blocks, 1, pool, clusters)
      inPool(block) == SelectSeq(block, LAMBDA tx : tx.txid \in DOMAIN placed)
  IN [ blocks |-> [ b \in DOMAIN blocks |->
                      DataToMempoolBlocks(
                        [k \in DOMAIN inPool(blocks[b]) |->
                           placed[inPool(blocks[b])[k].txid]]) ],
       pool   |-> placed ]

\* ------------------------------------------------------------------------
\* The worker thread (tx-selection-worker): it keeps a mirror of the
\* stripped mempool, replaces it on 'set', patches it on 'update', and
\* answers every message with the projected blocks of its mirror.
\* ------------------------------------------------------------------------
\* the mirror after a message
ApplyMessage(mirror, msg) ==
  IF msg.type = "set" THEN msg.mempool
  ELSE LET addedIds == { msg.added[k].txid : k \in DOMAIN msg.added }
           kept     == (DOMAIN mirror \cup addedIds) \ msg.removed
       IN [ id \in kept |->
              IF id \in addedIds
              THEN LastWithTxid(msg.added, id)
              ELSE mirror[id] ]

\* the worker's packing order: rate descending, txid ascending
WorkerOrder(mirror) ==
  LET S == DOMAIN mirror IN
  [ i \in 1..Cardinality(S) |->
      CHOOSE x \in S :
        Cardinality({ y \in S \ {x} : FinalBefore(mirror[y], mirror[x]) }) = i - 1 ]

\* greedy split of the ordered txids into at most amount blocks
RECURSIVE WorkerPack(_, _, _, _, _)
WorkerPack(order, mirror, amount, done, cur) ==
  IF order = <<>> THEN (IF cur = <<>> THEN done ELSE Append(done, cur))
  ELSE LET id == Head(order)
           w  == SumSeq([k \in DOMAIN cur |-> mirror[cur[k]].weight])
       IN IF cur = <<>> \/ w + mirror[id].weight <= BLOCK_WEIGHT_UNITS
             \/ Len(done) = amount - 1
          THEN WorkerPack(Tail(order), mirror, amount, done, Append(cur, id))
          ELSE WorkerPack(Tail(order), mirror, amount, Append(done, cur), <<id>>)

\* the transactions of the mirror that id spends, directly or through
\* others (depth bounds the walk)
RECURSIVE MirrorAncestors(_, _, _)
MirrorAncestors(id, mirror, depth) ==
  IF depth = 0 THEN {}
  ELSE LET parents == Range(mirror[id].vin) \cap DOMAIN mirror
       IN parents \cup UNION { MirrorAncestors(p, mirror, depth - 1) : p \in parents }

AncestorsIn(id, mirror) == MirrorAncestors(id, mirror, Cardinality(DOMAIN mirror))

\* the roots of the clusters: transactions with ancestors in the mirror
\* that no transaction of the mirror spends
ClusterRoots(mirror) ==
  { r \in DOMAIN mirror :
      /\ AncestorsIn(r, mirror) # {}
      /\ \A d \in DOMAIN mirror : r \notin AncestorsIn(d, mirror) }

\* the members of the cluster of root r: its ancestors, those with fewer
\* ancestors of their own first, then r
ClusterOf(r, mirror) ==
  LET A == AncestorsIn(r, mirror)
      Earlier(x, y) ==
        \/ Cardinality(AncestorsIn(x, mirror)) < Cardinality(AncestorsIn(y, mirror))
        \/ /\ Cardinality(AncestorsIn(x, mirror)) = Cardinality(AncestorsIn(y, mirror))
           /\ x < y
  IN [ i \in 1..Cardinality(A) |->
         CHOOSE x \in A : Cardinality({ y \in A : Earlier(y, x) }) = i - 1 ]
     \o <<r>>

\* the clusters of the reply
WorkerClusters(mirror) ==
  [ r \in ClusterRoots(mirror) |-> ClusterOf(r, mirror) ]

\* cpfpRoot of a result transaction: the root of the first cluster, in
\* packing order, it is a member of; 0 when it is in no cluster
CpfpRootOf(id, mirror) ==
  LET order == WorkerOrder(mirror)
      roots == { k \in DOMAIN order :
                   /\ order[k] \in ClusterRoots(mirror)
                   /\ id \in Range(ClusterOf(order[k], mirror)) }
  IN IF roots = {} THEN 0
     ELSE order[CHOOSE k \in roots : \A m \in roots : k <= m]

\* the blocks of the reply: every block a sequence of result transactions
WorkerReplyBlocks(mirror, amount) ==
  LET packed == WorkerPack(WorkerOrder(mirror), mirror, amount, <<>>, <<>>)
  IN [ b \in DOMAIN packed |->
         [ k \in DOMAIN packed[b] |->
             [ txid |-> packed[b][k],
               effectiveFeePerVsize |-> mirror[packed[b][k]].effectiveFeePerVsize,
               cpfpRoot |-> CpfpRootOf(packed[b][k], mirror),
               cpfpChecked |-> TRUE ] ] ]

\* the reply {blocks, clusters}
WorkerReply(mirror, amount) ==
  [ blocks |-> WorkerReplyBlocks(mirror, amount),
    clusters |-> WorkerClusters(mirror) ]

\* the value of a promise that is not resolved
NoReply == [ blocks |-> <<>>, clusters |-> <<>> ]

\* ------------------------------------------------------------------------
\* State
\* ------------------------------------------------------------------------
VARIABLES
  MEMPOOL_BLOCKS_AMOUNT, \* config.MEMPOOL.MEMPOOL_BLOCKS_AMOUNT
  mempool,               \* the live mempool object the driver passes to every call
  mempoolKeys,           \* its keys (txids) in insertion order, the order of for-in
  mempoolBlocks,         \* this.mempoolBlocks
  mempoolBlockDeltas,    \* this.mempoolBlockDeltas
  txSelectionWorker,     \* this.txSelectionWorker: a worker (1..) or 0 for null
  workers,               \* the worker threads spawned so far, with their listeners
  calls,                 \* the $makeBlockTemplates / $updateBlockTemplates calls
  microtasks,            \* calls whose awaited promise settled, not yet resumed
  ret                    \* what the last step returned to its caller, and the
                         \* blocks its projection produced

vars == << MEMPOOL_BLOCKS_AMOUNT, mempool, mempoolKeys, mempoolBlocks, mempoolBlockDeltas,
           txSelectionWorker, workers, calls, microtasks, ret >>

\* ret of a step that returns nothing to a caller
NoReturn ==
  [ op |-> "none", projected |-> FALSE, projection |-> <<>>, void |-> TRUE,
    blocks |-> <<>>, saved |-> FALSE, prev |-> <<>> ]

\* the transactions the ingestion layer delivers in specification Spec
Catalog ==
  [ id \in PublishTxIds \cup CapTxIds \cup CapFillerIds |->
      IF id = 1 THEN NewTx(1, 1000, 1200000, <<>>)
      ELSE IF id = 2 THEN NewTx(2, 8000, 3200000, <<1>>)
      ELSE IF id = 3 THEN NewTx(3, 500, 2000000, <<>>)
      ELSE IF id = 4 THEN NewTx(4, 6000, 4000000, <<>>)
      ELSE IF id = 5 THEN NewTx(5, 1000, 4000000, <<>>)
      ELSE IF id = 6 THEN NewTx(6, 5000, 4000000, <<5>>)
      ELSE NewTx(id, 10000, 4000000, <<>>) ]

Init ==
  /\ MEMPOOL_BLOCKS_AMOUNT \in 1..MaxBlocksAmount
  /\ mempool = <<>>
  /\ mempoolKeys = <<>>
  /\ mempoolBlocks = <<>>
  /\ mempoolBlockDeltas = <<>>
  /\ txSelectionWorker = 0
  /\ workers = <<>>
  /\ calls = <<>>
  /\ microtasks = <<>>
  /\ ret = NoReturn

\* no promise reaction is queued: the event loop may run the next task
Idle == microtasks = <<>>

\* ------------------------------------------------------------------------
\* The ingestion layer (the owner of the mempool object)
\* ------------------------------------------------------------------------
AddTx(id) ==
  /\ Idle
  /\ id \notin DOMAIN mempool
  /\ mempool' = [ i \in DOMAIN mempool \cup {id} |->
                    IF i = id THEN Catalog[id] ELSE mempool[i] ]
  /\ mempoolKeys' = Append(mempoolKeys, id)
  /\ ret' = NoReturn
  /\ UNCHANGED << MEMPOOL_BLOCKS_AMOUNT, mempoolBlocks, mempoolBlockDeltas,
                  txSelectionWorker, workers, calls, microtasks >>

RemoveTx(id) ==
  /\ Idle
  /\ id \in DOMAIN mempool
  /\ mempool' = [ i \in DOMAIN mempool \ {id} |-> mempool[i] ]
  /\ mempoolKeys' = SelectSeq(mempoolKeys, LAMBDA k : k # id)
  /\ ret' = NoReturn
  /\ UNCHANGED << MEMPOOL_BLOCKS_AMOUNT, mempoolBlocks, mempoolBlockDeltas,
                  txSelectionWorker, workers, calls, microtasks >>

\* the ingestion layer marks an entry for deletion
MarkDeleteAfter(id) ==
  /\ Idle
  /\ id \in DOMAIN mempool
  /\ ~mempool[id].deleteAfter
  /\ mempool' = [mempool EXCEPT ![id].deleteAfter = TRUE]
  /\ ret' = NoReturn
  /\ UNCHANGED << MEMPOOL_BLOCKS_AMOUNT, mempoolKeys, mempoolBlocks, mempoolBlockDeltas,
                  txSelectionWorker, workers, calls, microtasks >>

\* ------------------------------------------------------------------------
\* "if (saveResults) { ... }" of updateMempoolBlocks and processBlockTemplates
\* ------------------------------------------------------------------------
\* the save with the two assignments in the other order: the deltas are
\* computed after this.mempoolBlocks was replaced
SaveResultsBlocksFirst(saveResults, blocks) ==
  IF saveResults
  THEN /\ mempoolBlocks' = blocks
       /\ mempoolBlockDeltas' = CalculateMempoolDeltas(blocks, blocks)
  ELSE UNCHANGED << mempoolBlocks, mempoolBlockDeltas >>

\* the save that replaces this.mempoolBlocks and leaves the deltas
SaveResultsBlocksOnly(saveResults, blocks) ==
  IF saveResults
  THEN /\ mempoolBlocks' = blocks
       /\ UNCHANGED mempoolBlockDeltas
  ELSE UNCHANGED << mempoolBlocks, mempoolBlockDeltas >>

SaveResults(saveResults, blocks) ==
  IF saveResults
  THEN /\ mempoolBlockDeltas' = CalculateMempoolDeltas(mempoolBlocks, blocks)
       /\ mempoolBlocks' = blocks
  ELSE UNCHANGED << mempoolBlocks, mempoolBlockDeltas >>

\* ret of a call that projected blocks; prev is this.mempoolBlocks as the
\* call found it, kept when the call saved its results
Return(op, blocks, saveResults) ==
  [ op |-> op, projected |-> TRUE, projection |-> blocks, void |-> FALSE,
    blocks |-> blocks, saved |-> saveResults,
    prev |-> IF saveResults THEN mempoolBlocks ELSE <<>> ]

\* ret of $updateBlockTemplates (Promise<void>): the caller gets undefined;
\* projection are the blocks processBlockTemplates returned to it, if it ran
ReturnNothing(op, projected, projection, saveResults) ==
  [ op |-> op, projected |-> projected, projection |-> projection,
    void |-> TRUE, blocks |-> <<>>, saved |-> saveResults,
    prev |-> IF saveResults THEN mempoolBlocks ELSE <<>> ]

\* a call that returned: nothing of it is left but its place in the run
DoneCall ==
  [ kind |-> "returned", inner |-> FALSE, saveResults |-> FALSE, worker |-> 0,
    promise |-> "settled", value |-> NoReply, pc |-> "done" ]

\* ------------------------------------------------------------------------
\* updateMempoolBlocks(memPool, saveResults)
\* ------------------------------------------------------------------------
UpdateMempoolBlocks(saveResults) ==
  /\ Idle
  /\ Len(calls) < MaxCalls
  /\ LET r == ProjectFast(mempoolKeys, mempool, MEMPOOL_BLOCKS_AMOUNT) IN
       /\ mempool' = r.pool
       /\ SaveResults(saveResults, r.blocks)
       /\ ret' = Return("updateMempoolBlocks", r.blocks, saveResults)
  /\ calls' = Append(calls, DoneCall)
  /\ UNCHANGED << MEMPOOL_BLOCKS_AMOUNT, mempoolKeys, txSelectionWorker, workers,
                  microtasks >>

\* ------------------------------------------------------------------------
\* $makeBlockTemplates and $updateBlockTemplates up to the await
\* ------------------------------------------------------------------------
\* a worker spawned without the once('error') listener that resets the handle
NewWorkerNoErrorReset ==
  [ status |-> "alive", mirror |-> <<>>, inbox |-> <<>>,
    onMessage |-> <<>>, onError |-> <<>>, onExit |-> TRUE ]

\* new Worker(...), with the two listeners that reset the handle.  The
\* listener 0 of 'error' is "this.txSelectionWorker = null".
NewWorker ==
  [ status |-> "alive", mirror |-> <<>>, inbox |-> <<>>,
    onMessage |-> <<>>, onError |-> <<0>>, onExit |-> TRUE ]

SetMessage(newMempool) ==
  [ type |-> "set", mempool |-> StrippedMempool(newMempool),
    added |-> <<>>, removed |-> {} ]

\* added: TransactionExtended[], removed: string[]
UpdateMessage(added, removed) ==
  [ type |-> "update", mempool |-> <<>>,
    added |-> [k \in DOMAIN added |-> StripForThread(added[k])],
    removed |-> removed ]

\* the promise executor and postMessage: call c listens on worker w for one
\* 'message' and one 'error', then the message is posted
Post(ws, w, c, msg) ==
  [ws EXCEPT ![w].onMessage = Append(@, c),
             ![w].onError   = Append(@, c),
             ![w].inbox     = Append(@, msg)]

\* inner: the call is a $updateBlockTemplates that runs $makeBlockTemplates
\* and awaits it (lines 236-240)
NewCall(kind, inner, saveResults, w) ==
  [ kind |-> kind, inner |-> inner, saveResults |-> saveResults, worker |-> w,
    promise |-> "pending", value |-> NoReply, pc |-> "await" ]

\* $makeBlockTemplates(newMempool, saveResults) until it awaits; kind is
\* "make", or "update" when $updateBlockTemplates delegates to it
MakeUntilAwait(kind, saveResults) ==
  LET c  == Len(calls) + 1
      ws == IF txSelectionWorker = 0 THEN Append(workers, NewWorker) ELSE workers
      w  == IF txSelectionWorker = 0 THEN Len(workers) + 1 ELSE txSelectionWorker
  IN /\ txSelectionWorker' = w
     /\ workers' = Post(ws, w, c, SetMessage(mempool))
     /\ calls' = Append(calls, NewCall(kind, kind = "update", saveResults, w))

StartMake(saveResults) ==
  /\ Idle
  /\ Len(calls) < MaxCalls
  /\ MakeUntilAwait("make", saveResults)
  /\ ret' = NoReturn
  /\ UNCHANGED << MEMPOOL_BLOCKS_AMOUNT, mempoolKeys, mempool, mempoolBlocks,
                  mempoolBlockDeltas, microtasks >>

\* $updateBlockTemplates(newMempool, added, removed, saveResults) until it
\* awaits: added (an array, given by its txids) are entries of the mempool,
\* removed are txids that left it.  Without a worker the call runs
\* $makeBlockTemplates, which reads neither added nor removed: the model
\* takes them empty there.
StartUpdate(addedIds, removed, saveResults) ==
  /\ Idle
  /\ Len(calls) < MaxCalls
  /\ IF txSelectionWorker = 0
     THEN /\ addedIds = <<>> /\ removed = {}
          /\ MakeUntilAwait("update", saveResults)
     ELSE LET c     == Len(calls) + 1
              added == [k \in DOMAIN addedIds |-> mempool[addedIds[k]]]
          IN /\ workers' = Post(workers, txSelectionWorker, c,
                                UpdateMessage(added, removed))
             /\ calls' = Append(calls, NewCall("update", FALSE, saveResults,
                                               txSelectionWorker))
             /\ UNCHANGED txSelectionWorker
  /\ ret' = NoReturn
  /\ UNCHANGED << MEMPOOL_BLOCKS_AMOUNT, mempoolKeys, mempool, mempoolBlocks,
                  mempoolBlockDeltas, microtasks >>

\* ------------------------------------------------------------------------
\* Events of a worker thread, as the orchestrator's event loop sees them
\* ------------------------------------------------------------------------
\* the calls among ids (in order) whose promise is still pending
Pending(ids) == SelectSeq(ids, LAMBDA c : c > 0 /\ calls[c].promise = "pending")

\* 'message': the worker answers the oldest message; every once('message')
\* listener of the worker runs and resolves its promise
WorkerMessage(w) ==
  /\ Idle
  /\ w \in DOMAIN workers
  /\ workers[w].status = "alive"
  /\ workers[w].inbox # <<>>
  /\ LET mirror  == ApplyMessage(workers[w].mirror, Head(workers[w].inbox))
         reply   == WorkerReply(mirror, MEMPOOL_BLOCKS_AMOUNT)
         settled == Pending(workers[w].onMessage)
     IN /\ workers' = [workers EXCEPT ![w].mirror = mirror,
                                      ![w].inbox = Tail(@),
                                      ![w].onMessage = <<>>]
        /\ calls' = [ c \in DOMAIN calls |->
                        IF c \in Range(settled)
                        THEN [calls[c] EXCEPT !.promise = "resolved",
                                              !.value = reply]
                        ELSE calls[c] ]
        /\ microtasks' = settled
  /\ ret' = NoReturn
  /\ UNCHANGED << MEMPOOL_BLOCKS_AMOUNT, mempoolKeys, mempool, mempoolBlocks,
                  mempoolBlockDeltas, txSelectionWorker >>

\* 'error': the thread threw; every once('error') listener of the worker
\* runs.  The thread is gone: its mirror and its unread messages with it.
WorkerError(w) ==
  /\ Idle
  /\ w \in DOMAIN workers
  /\ workers[w].status = "alive"
  /\ LET settled == Pending(workers[w].onError)
     IN /\ workers' = [workers EXCEPT ![w].status = "errored",
                                      ![w].mirror = <<>>, ![w].inbox = <<>>,
                                      ![w].onError = <<>>]
        /\ txSelectionWorker' = IF 0 \in Range(workers[w].onError) THEN 0
                                ELSE txSelectionWorker
        /\ calls' = [ c \in DOMAIN calls |->
                        IF c \in Range(settled)
                        THEN [calls[c] EXCEPT !.promise = "rejected"]
                        ELSE calls[c] ]
        /\ microtasks' = settled
  /\ ret' = NoReturn
  /\ UNCHANGED << MEMPOOL_BLOCKS_AMOUNT, mempoolKeys, mempool, mempoolBlocks,
                  mempoolBlockDeltas >>

\* 'exit': the thread ended, after an error or for any other reason; the
\* once('exit') listener runs
WorkerExit(w) ==
  /\ Idle
  /\ w \in DOMAIN workers
  /\ workers[w].status \in {"alive", "errored"}
  /\ workers' = [workers EXCEPT ![w].status = "exited", ![w].onExit = FALSE,
                                ![w].mirror = <<>>, ![w].inbox = <<>>]
  /\ txSelectionWorker' = IF workers[w].onExit THEN 0 ELSE txSelectionWorker
  /\ ret' = NoReturn
  /\ UNCHANGED << MEMPOOL_BLOCKS_AMOUNT, mempoolKeys, mempool, mempoolBlocks,
                  mempoolBlockDeltas, calls, microtasks >>

\* ------------------------------------------------------------------------
\* The rest of $makeBlockTemplates / $updateBlockTemplates, after the await
\* ------------------------------------------------------------------------
Returned(c) == IF calls[c].kind = "make" \/ calls[c].inner
               THEN "makeBlockTemplates"
               ELSE "updateBlockTemplates"

\* the promise was resolved: stale filter, listener clean-up,
\* processBlockTemplates.  $makeBlockTemplates returns the blocks;
\* $updateBlockTemplates returns nothing.  When $updateBlockTemplates runs
\* $makeBlockTemplates, the return settles the promise it awaits (line 238)
\* and its own continuation is queued behind the reactions already queued.
ResumeResolved ==
  /\ microtasks # <<>>
  /\ calls[Head(microtasks)].pc = "await"
  /\ calls[Head(microtasks)].promise = "resolved"
  /\ LET c      == Head(microtasks)
         blocks == FilterStale(calls[c].value.blocks, mempool)
         r      == ProcessBlockTemplates(mempool, blocks, calls[c].value.clusters)
     IN /\ workers' = IF txSelectionWorker = 0 THEN workers
                      ELSE [workers EXCEPT ![txSelectionWorker].onError =
                              SelectSeq(@, LAMBDA l : l # c)]
        /\ mempool' = r.pool
        /\ SaveResults(calls[c].saveResults, r.blocks)
        /\ IF calls[c].inner
           THEN /\ calls' = [calls EXCEPT ![c].pc = "outer",
                                          ![c].promise = "settled",
                                          ![c].value = NoReply]
                /\ microtasks' = Append(Tail(microtasks), c)
           ELSE /\ calls' = [calls EXCEPT ![c] = DoneCall]
                /\ microtasks' = Tail(microtasks)
        /\ ret' = IF Returned(c) = "makeBlockTemplates"
                  THEN Return(Returned(c), r.blocks, calls[c].saveResults)
                  ELSE ReturnNothing(Returned(c), TRUE, r.blocks, calls[c].saveResults)
  /\ UNCHANGED << MEMPOOL_BLOCKS_AMOUNT, mempoolKeys, txSelectionWorker >>

\* the promise was rejected: the catch block logs; $makeBlockTemplates
\* returns this.mempoolBlocks, $updateBlockTemplates returns nothing
ResumeRejected ==
  /\ microtasks # <<>>
  /\ calls[Head(microtasks)].pc = "await"
  /\ calls[Head(microtasks)].promise = "rejected"
  /\ LET c == Head(microtasks)
     IN /\ IF calls[c].inner
           THEN /\ calls' = [calls EXCEPT ![c].pc = "outer",
                                          ![c].promise = "settled"]
                /\ microtasks' = Append(Tail(microtasks), c)
           ELSE /\ calls' = [calls EXCEPT ![c] = DoneCall]
                /\ microtasks' = Tail(microtasks)
        /\ ret' = IF Returned(c) = "makeBlockTemplates"
                  THEN [ op |-> Returned(c), projected |-> FALSE,
                         projection |-> <<>>, void |-> FALSE,
                         blocks |-> mempoolBlocks, saved |-> FALSE, prev |-> <<>> ]
                  ELSE ReturnNothing(Returned(c), FALSE, <<>>, FALSE)
  /\ UNCHANGED << MEMPOOL_BLOCKS_AMOUNT, mempoolKeys, mempool, mempoolBlocks,
                  mempoolBlockDeltas, txSelectionWorker, workers >>

\* "await this.$makeBlockTemplates(newMempool, saveResults); return;" of
\* $updateBlockTemplates: the awaited call has returned
ResumeDelegated ==
  /\ microtasks # <<>>
  /\ calls[Head(microtasks)].pc = "outer"
  /\ calls' = [calls EXCEPT ![Head(microtasks)] = DoneCall]
  /\ microtasks' = Tail(microtasks)
  /\ ret' = ReturnNothing("updateBlockTemplates", FALSE, <<>>, FALSE)
  /\ UNCHANGED << MEMPOOL_BLOCKS_AMOUNT, mempoolKeys, mempool, mempoolBlocks,
                  mempoolBlockDeltas, txSelectionWorker, workers >>

\* ------------------------------------------------------------------------
\* Specification of the orchestrator with its worker
\* ------------------------------------------------------------------------
Next ==
  \/ \E id \in TxIds : AddTx(id)
  \/ \E id \in TxIds : RemoveTx(id)
  \/ \E s \in BOOLEAN : UpdateMempoolBlocks(s)
  \/ \E s \in BOOLEAN : StartMake(s)
  \/ \E a \in SUBSET DOMAIN mempool, r \in SUBSET (TxIds \ DOMAIN mempool),
        s \in BOOLEAN : \E added \in Orderings(a) : StartUpdate(added, r, s)
  \/ \E w \in 1..MaxCalls : WorkerMessage(w)
  \/ \E w \in 1..MaxCalls : WorkerError(w)
  \/ \E w \in 1..MaxCalls : WorkerExit(w)
  \/ ResumeResolved
  \/ ResumeRejected
  \/ ResumeDelegated

Spec == Init /\ [][Next]_vars

\* ------------------------------------------------------------------------
\* Specification of the fast path alone: updateMempoolBlocks on mempools
\* drawn from PackPools
\* ------------------------------------------------------------------------
\* largest MEMPOOL_BLOCKS_AMOUNT of the packer's specification
MaxPackBlocksAmount == 3
PackTxIds == {1, 2, 3}
PackWeights == {1200000, 2800000, 16000000}
PackFees == {0, 3000}

\* vin as sets: no transaction spends itself or a descendant
Acyclic(vins) ==
  /\ \A a \in DOMAIN vins : a \notin vins[a]
  /\ \A a, b \in DOMAIN vins : ~(a \in vins[b] /\ b \in vins[a])
  /\ \A a, b, c \in DOMAIN vins : ~(a \in vins[b] /\ b \in vins[c] /\ c \in vins[a])

PackPools ==
  UNION { { [ id \in D |-> NewTx(id, fees[id], weights[id], Ascending(vins[id])) ] :
              fees \in [D -> PackFees], weights \in [D -> PackWeights],
              vins \in { v \in [D -> SUBSET PackTxIds] : Acyclic(v) } } :
          D \in SUBSET PackTxIds }

\* insertion orders of the keys of a mempool: ascending, and those in which
\* the largest txid was inserted first
PackKeyOrders(S) ==
  { o \in Orderings(S) : o = Ascending(S) \/ \A x \in S : x <= o[1] }

InitPack ==
  /\ MEMPOOL_BLOCKS_AMOUNT \in 1..MaxPackBlocksAmount
  /\ mempool \in PackPools
  /\ mempoolKeys \in PackKeyOrders(DOMAIN mempool)
  /\ mempoolBlocks = <<>>
  /\ mempoolBlockDeltas = <<>>
  /\ txSelectionWorker = 0
  /\ workers = <<>>
  /\ calls = <<>>
  /\ microtasks = <<>>
  /\ ret = NoReturn

NextPack == \E s \in BOOLEAN : UpdateMempoolBlocks(s)

SpecPack == InitPack /\ [][NextPack]_vars

\* ------------------------------------------------------------------------
\* Specification of the delta computer alone: the save of the results,
\* on block sequences drawn from DeltaBlockSeqs
\* ------------------------------------------------------------------------
\* number of blocks of a sequence
MaxDeltaBlocks == 2
DeltaTxIds == {1, 2}
\* rate: absent, 5 or 7
DeltaRates == {Undef, <<5, 1>>, <<7, 1>>}

\* a block whose client-facing list is txs
DeltaBlock(txs) ==
  [ blockSize      |-> SumSeq([k \in DOMAIN txs |-> txs[k].vsize]),
    blockVSize     |-> SumSeq([k \in DOMAIN txs |-> txs[k].vsize]),
    nTx            |-> Len(txs),
    totalFees      |-> SumSeq([k \in DOMAIN txs |-> txs[k].fee]),
    transactionIds |-> [k \in DOMAIN txs |-> txs[k].txid],
    transactions   |-> txs ]

\* the txids of ids in ascending (up) or descending order
InOrder(ids, up) ==
  LET asc == Ascending(ids)
  IN IF up THEN asc ELSE [k \in DOMAIN asc |-> asc[Len(asc) + 1 - k]]

\* Sequences of at most MaxDeltaBlocks blocks; a txid is in at most one
\* block, once (place 0: in none), as in every projection.
DeltaBlockSeqs ==
  { [ b \in 1..n |->
        DeltaBlock(LET ids == InOrder({ id \in DeltaTxIds : place[id] = b }, up)
                   IN [k \in DOMAIN ids |->
                         [ txid |-> ids[k], fee |-> 1000, vsize |-> 300000,
                           rate |-> rate[ids[k]] ]]) ] :
      n \in 0..MaxDeltaBlocks, place \in [DeltaTxIds -> 0..MaxDeltaBlocks],
      rate \in [DeltaTxIds -> DeltaRates], up \in BOOLEAN }

InitDelta ==
  /\ MEMPOOL_BLOCKS_AMOUNT = MaxDeltaBlocks
  /\ mempool = <<>>
  /\ mempoolKeys = <<>>
  /\ mempoolBlocks \in DeltaBlockSeqs
  /\ mempoolBlockDeltas = CalculateMempoolDeltas(<<>>, mempoolBlocks)
  /\ txSelectionWorker = 0
  /\ workers = <<>>
  /\ calls = <<>>
  /\ microtasks = <<>>
  /\ ret = NoReturn

\* "if (saveResults) { ... }" on the blocks of a projection
SaveBlocks(blocks) ==
  /\ SaveResults(TRUE, blocks)
  /\ ret' = Return("save", blocks, TRUE)
  /\ UNCHANGED << MEMPOOL_BLOCKS_AMOUNT, mempoolKeys, mempool, txSelectionWorker, workers,
                  calls, microtasks >>

NextDelta == \E blocks \in DeltaBlockSeqs : SaveBlocks(blocks)

SpecDelta == InitDelta /\ [][NextDelta]_vars

\* ------------------------------------------------------------------------
\* Specification of the published snapshot under the fast path: the
\* ingestion layer adds and removes the transactions of PublishTxIds, and
\* updateMempoolBlocks projects (and saves) in between
\* ------------------------------------------------------------------------
NextPublish ==
  \/ \E id \in PublishTxIds : AddTx(id)
  \/ \E id \in PublishTxIds : RemoveTx(id)
  \/ \E s \in BOOLEAN : UpdateMempoolBlocks(s)

SpecPublish == Init /\ [][NextPublish]_vars

\* ------------------------------------------------------------------------
\* Specification of the projections of a mempool in which the ingestion
\* layer marks entries with deleteAfter
\* ------------------------------------------------------------------------
NextTombstone ==
  \/ \E id \in TxIds : AddTx(id)
  \/ \E id \in TxIds : MarkDeleteAfter(id)
  \/ \E s \in BOOLEAN : UpdateMempoolBlocks(s)
  \/ \E s \in BOOLEAN : StartMake(s)
  \/ \E a \in SUBSET DOMAIN mempool, s \in BOOLEAN :
       \E added \in Orderings(a) : StartUpdate(added, {}, s)
  \/ \E w \in 1..MaxCalls : WorkerMessage(w)
  \/ ResumeResolved
  \/ ResumeDelegated

SpecTombstone == Init /\ [][NextTombstone]_vars

\* ------------------------------------------------------------------------
\* Specification of the fast path on a mempool around the resolver's weight
\* cap, with the default MEMPOOL_BLOCKS_AMOUNT of 8
\* ------------------------------------------------------------------------
InitCap ==
  /\ MEMPOOL_BLOCKS_AMOUNT = 8
  /\ mempool = [id \in CapFillerIds |-> Catalog[id]]
  /\ mempoolKeys \in { Ascending(CapFillerIds),
                       [k \in 1..Cardinality(CapFillerIds) |->
                          Ascending(CapFillerIds)[Cardinality(CapFillerIds) + 1 - k]] }
  /\ mempoolBlocks = <<>>
  /\ mempoolBlockDeltas = <<>>
  /\ txSelectionWorker = 0
  /\ workers = <<>>
  /\ calls = <<>>
  /\ microtasks = <<>>
  /\ ret = NoReturn

NextCap ==
  \/ \E id \in CapTxIds : AddTx(id)
  \/ \E id \in CapTxIds : RemoveTx(id)
  \/ \E s \in BOOLEAN : UpdateMempoolBlocks(s)

SpecCap == InitCap /\ [][NextCap]_vars

\* ------------------------------------------------------------------------
\* Properties
\* ------------------------------------------------------------------------
\* all txids of a block sequence, block after block
BlockIds(blocks) == Concat([b \in DOMAIN blocks |-> blocks[b].transactionIds])

TxidsOf(txs) == { txs[k].txid : k \in DOMAIN txs }

\* the weight of the transactions of block b, from the records of the pool
BlockWeight(blocks, b, pool) ==
  SumSeq([k \in DOMAIN blocks[b].transactionIds |->
            pool[blocks[b].transactionIds[k]].weight])

\* the step just taken was a projection by the template path
TemplateProjected ==
  ret.projected /\ ret.op \in {"makeBlockTemplates", "updateBlockTemplates"}

\* C1: the txids of the blocks of one projection (fast path, or template
\* path after the stale filter) are keys of the mempool of the call, and no
\* txid occurs twice across the blocks.
C1_IdsInMempoolOnce ==
  ret.projected =>
    LET ids == BlockIds(ret.projection) IN
      /\ \A k \in DOMAIN ids : ids[k] \in DOMAIN mempool
      /\ \A k, m \in DOMAIN ids : k # m => ids[k] # ids[m]

\* C1 witness: a template projection returned a transaction while the
\* worker's mirror still held one that had left the mempool (a stale one).
C1_Witness ==
  /\ TemplateProjected
  /\ BlockIds(ret.projection) # <<>>
  /\ \E w \in DOMAIN workers :
       /\ workers[w].status = "alive"
       /\ \E id \in DOMAIN workers[w].mirror : id \notin DOMAIN mempool

\* C2 as stated: every block but the last weighs at most BLOCK_WEIGHT_UNITS,
\* whatever the weights of the transactions.
C2_AnyWeights ==
  ret.op = "updateMempoolBlocks" =>
    \A b \in DOMAIN ret.blocks :
      b < Len(ret.blocks) => BlockWeight(ret.blocks, b, mempool) <= BLOCK_WEIGHT_UNITS

\* C2 amended: when no transaction alone weighs more than BLOCK_WEIGHT_UNITS,
\* every block but the last weighs at most BLOCK_WEIGHT_UNITS.
C2_NoOversizedTx ==
  ( /\ ret.op = "updateMempoolBlocks"
    /\ \A id \in DOMAIN mempool : mempool[id].weight <= BLOCK_WEIGHT_UNITS )
  => \A b \in DOMAIN ret.blocks :
       b < Len(ret.blocks) => BlockWeight(ret.blocks, b, mempool) <= BLOCK_WEIGHT_UNITS

\* C2 witness: three transactions, none oversized, projected into more than
\* one block.
C2_Witness ==
  /\ ret.op = "updateMempoolBlocks"
  /\ \A id \in DOMAIN mempool : mempool[id].weight <= BLOCK_WEIGHT_UNITS
  /\ Cardinality(DOMAIN mempool) = 3
  /\ Len(ret.blocks) >= 2

\* C3: updateMempoolBlocks returns at most MEMPOOL_BLOCKS_AMOUNT blocks, and
\* they hold every transaction of the mempool in packing order: so what
\* remains after MEMPOOL_BLOCKS_AMOUNT - 1 blocks is in the last block,
\* whatever it weighs.
C3_AtMostAmountBlocks ==
  ret.op = "updateMempoolBlocks" =>
    /\ Len(ret.blocks) <= MEMPOOL_BLOCKS_AMOUNT
    /\ BlockIds(ret.blocks) = FinalSort(mempoolKeys, mempool)

\* C3 witness: the last permitted block took a transaction it had no room for.
C3_Witness ==
  /\ ret.op = "updateMempoolBlocks"
  /\ MEMPOOL_BLOCKS_AMOUNT >= 2
  /\ Len(ret.blocks) = MEMPOOL_BLOCKS_AMOUNT
  /\ ret.blocks[Len(ret.blocks)].nTx >= 2
  /\ BlockWeight(ret.blocks, Len(ret.blocks), mempool) > BLOCK_WEIGHT_UNITS

\* the vsize of the first n transactions of block b
VsizeBefore(blocks, b, n, pool) ==
  SumSeq([m \in 1..n |-> pool[blocks[b].transactionIds[m]].vsize])

\* C4: after a projection, the transaction at index k of block b has
\* position.block = b and position.vsize = the vsize of the transactions
\* before it in the block plus half its own; position.vsize grows strictly
\* along the block.
C4_Positions ==
  ret.projected =>
    \A b \in DOMAIN ret.projection :
      LET ids == ret.projection[b].transactionIds IN
      \A k \in DOMAIN ids :
        /\ ids[k] \in DOMAIN mempool
        /\ mempool[ids[k]].position =
             [ block |-> b - 1,
               vsize |-> VsizeBefore(ret.projection, b, k - 1, mempool)
                         + mempool[ids[k]].vsize \div 2 ]
        /\ k > 1 => mempool[ids[k - 1]].position.vsize
                      < mempool[ids[k]].position.vsize

\* C4 witness: a template projection put two transactions in one block.
C4_Witness ==
  /\ TemplateProjected
  /\ \E b \in DOMAIN ret.projection : Len(ret.projection[b].transactionIds) >= 2

\* a is an ancestor of t: reachable through vin over transactions of the pool
RECURSIVE IsAncestor(_, _, _, _)
IsAncestor(a, t, pool, depth) ==
  /\ depth > 0
  /\ \E p \in Range(pool[t].vin) \cap DOMAIN pool :
       p = a \/ IsAncestor(a, p, pool, depth - 1)

\* the place of txid id in the packing order of the blocks
PlaceOf(blocks, id) ==
  CHOOSE k \in DOMAIN BlockIds(blocks) : BlockIds(blocks)[k] = id

\* C5 as stated: in the blocks of updateMempoolBlocks every ancestor that is
\* in the mempool is placed before its descendant.
C5_AncestorsFirst ==
  ret.op = "updateMempoolBlocks" =>
    \A t, a \in DOMAIN mempool :
      IsAncestor(a, t, mempool, Cardinality(DOMAIN mempool)) =>
        PlaceOf(ret.blocks, a) < PlaceOf(ret.blocks, t)

\* the txids of a sequence of stripped transactions, in order
TxidSeq(txs) == [k \in DOMAIN txs |-> txs[k].txid]

\* the step just taken saved a projection whose blocks i exist before and after
SavedBoth(i) == ret.saved /\ i <= Len(ret.prev) /\ i <= Len(mempoolBlocks)

\* C6: delta soundness. The deltas of prev and new are max(|prev|, |new|)
\* long; where both blocks exist, the txids of prev[i].transactions less
\* removed plus those of added are the txids of new[i].transactions; where
\* only new[i] exists added is new[i].transactions; where only prev[i]
\* exists removed is the txids of prev[i].transactions.
C6_DeltaSound ==
  ret.saved =>
    /\ Len(mempoolBlockDeltas) = Max(Len(ret.prev), Len(mempoolBlocks))
    /\ \A i \in DOMAIN mempoolBlockDeltas :
         LET d == mempoolBlockDeltas[i] IN
         IF SavedBoth(i)
         THEN (TxidsOf(ret.prev[i].transactions) \ Range(d.removed))
                \cup TxidsOf(d.added)
              = TxidsOf(mempoolBlocks[i].transactions)
         ELSE IF i <= Len(mempoolBlocks)
         THEN d.added = mempoolBlocks[i].transactions
         ELSE d.removed = TxidSeq(ret.prev[i].transactions)

\* C6 witness: one save whose deltas remove a transaction at an index where
\* both blocks exist, add one at such an index, and cover a block that only
\* the previous sequence has.
C6_Witness ==
  /\ ret.saved
  /\ \E i \in DOMAIN mempoolBlockDeltas :
       SavedBoth(i) /\ mempoolBlockDeltas[i].removed # <<>>
  /\ \E i \in DOMAIN mempoolBlockDeltas :
       SavedBoth(i) /\ mempoolBlockDeltas[i].added # <<>>
  /\ Len(ret.prev) > Len(mempoolBlocks)
  /\ ret.prev[Len(ret.prev)].transactions # <<>>

\* C7: delta idempotence. The deltas of X against X are |X| deltas with
\* added, removed and changed all empty.
C7_DeltaIdempotent ==
  (ret.saved /\ ret.prev = mempoolBlocks) =>
    /\ Len(mempoolBlockDeltas) = Len(mempoolBlocks)
    /\ \A i \in DOMAIN mempoolBlockDeltas :
         mempoolBlockDeltas[i] = [added |-> <<>>, removed |-> <<>>, changed |-> <<>>]

\* C7 witness: a sequence of two blocks, with a transaction without a rate
\* and one with a rate, was saved over itself.
C7_Witness ==
  /\ ret.saved /\ ret.prev = mempoolBlocks
  /\ Len(mempoolBlocks) = 2
  /\ \E i, j \in DOMAIN mempoolBlocks :
       /\ \E k \in DOMAIN mempoolBlocks[i].transactions :
            mempoolBlocks[i].transactions[k].rate = Undef
       /\ \E k \in DOMAIN mempoolBlocks[j].transactions :
            mempoolBlocks[j].transactions[k].rate # Undef

\* the transaction with txid id of a sequence in which txids are distinct
TxOf(txs, id) == txs[CHOOSE k \in DOMAIN txs : txs[k].txid = id]

\* the txids of both blocks i whose rate differs (an absent rate differs
\* from a present one)
Rerated(i) ==
  { id \in TxidsOf(ret.prev[i].transactions) \cap TxidsOf(mempoolBlocks[i].transactions) :
      TxOf(mempoolBlocks[i].transactions, id).rate # TxOf(ret.prev[i].transactions, id).rate }

\* C8: where both blocks exist, changed has exactly one entry
\* {txid, rate: new rate} for each txid of both blocks whose rate differs,
\* and none for any other txid; those txids are in neither added nor removed.
C8_ChangedExact ==
  \A i \in DOMAIN mempoolBlockDeltas :
    SavedBoth(i) =>
      LET d == mempoolBlockDeltas[i] IN
      /\ Range(d.changed) =
           { [txid |-> id, rate |-> TxOf(mempoolBlocks[i].transactions, id).rate] :
               id \in Rerated(i) }
      /\ Len(d.changed) = Cardinality(Rerated(i))
      /\ \A id \in Rerated(i) :
           id \notin TxidsOf(d.added) /\ id \notin Range(d.removed)

\* C8 witness: in one block a transaction got a rate it did not have, another
\* kept its rate.
C8_Witness ==
  \E i \in DOMAIN mempoolBlockDeltas :
    /\ SavedBoth(i)
    /\ \E id \in Rerated(i) : TxOf(ret.prev[i].transactions, id).rate = Undef
    /\ \E id \in TxidsOf(ret.prev[i].transactions) \cap TxidsOf(mempoolBlocks[i].transactions) :
         id \notin Rerated(i)

\* C9 as stated: a transaction in block i of the previous published
\* projection and in block j # i of the new one, by transactionIds, has its
\* txid in removed of index i and its record in added of index j.
C9_MovedByTransactionIds ==
  ret.saved =>
    \A i \in DOMAIN ret.prev, j \in DOMAIN mempoolBlocks :
      i # j =>
        \A id \in Range(ret.prev[i].transactionIds)
                  \cap Range(mempoolBlocks[j].transactionIds) :
          /\ id \in Range(mempoolBlockDeltas[i].removed)
          /\ id \in TxidsOf(mempoolBlockDeltas[j].added)

\* C9 amended: a transaction in the transactions list of block i of the
\* previous published projection and in the transactions list of block
\* j # i of the new one has its txid in removed of index i and its record in
\* added of index j.
C9_MovedByTransactions ==
  ret.saved =>
    \A i \in DOMAIN ret.prev, j \in DOMAIN mempoolBlocks :
      i # j =>
        \A id \in TxidsOf(ret.prev[i].transactions)
                  \cap TxidsOf(mempoolBlocks[j].transactions) :
          /\ id \in Range(mempoolBlockDeltas[i].removed)
          /\ TxOf(mempoolBlocks[j].transactions, id)
               \in Range(mempoolBlockDeltas[j].added)

\* C9 witness: a saved projection moved a transaction of the transactions
\* lists from one block to another.
C9_Witness ==
  /\ ret.saved
  /\ \E i \in DOMAIN ret.prev, j \in DOMAIN mempoolBlocks :
       /\ i # j
       /\ TxidsOf(ret.prev[i].transactions)
            \cap TxidsOf(mempoolBlocks[j].transactions) # {}

\* C10 as stated: once a worker has emitted 'error' or 'exit', no request
\* that awaits its reply is still pending, and the handle txSelectionWorker
\* does not name it.
C10_DeadWorkerRejects ==
  \A w \in DOMAIN workers :
    workers[w].status # "alive" =>
      /\ txSelectionWorker # w
      /\ \A c \in DOMAIN calls :
           (calls[c].pc = "await" /\ calls[c].worker = w)
             => calls[c].promise # "pending"

\* a worker emitted 'error' or 'exit' in the step
WorkerFailed == \E w \in DOMAIN workers : workers'[w].status # workers[w].status

\* a $makeBlockTemplates or $updateBlockTemplates call started in the step
TemplateCallStarted ==
  /\ Len(calls') = Len(calls) + 1
  /\ calls'[Len(calls')].pc = "await"

\* C11: crash recovery. After a worker's 'error' or 'exit' the handle is
\* null; a $updateBlockTemplates (or $makeBlockTemplates) call that finds the
\* handle null posts no message to an existing worker: it spawns a worker
\* whose first message is 'set' with the full stripped mempool. Messages of
\* type 'update' go only to the worker of the handle, so no worker receives
\* 'update' before 'set'.
C11_CrashRecovery ==
  [][ /\ WorkerFailed => txSelectionWorker' = 0
      /\ (TemplateCallStarted /\ txSelectionWorker = 0) =>
           /\ DOMAIN workers' = DOMAIN workers \cup {Len(workers) + 1}
           /\ txSelectionWorker' = Len(workers) + 1
           /\ workers'[Len(workers) + 1].inbox = <<SetMessage(mempool)>>
           /\ \A w \in DOMAIN workers : workers'[w] = workers[w]
      /\ (TemplateCallStarted /\ txSelectionWorker # 0) =>
           /\ DOMAIN workers' = DOMAIN workers
           /\ \A w \in DOMAIN workers :
                w # txSelectionWorker => workers'[w] = workers[w] ]_vars

\* C11 witness: after a worker failed, a $updateBlockTemplates call
\* delegated: it awaits a newer worker that holds the 'set' message of a
\* mempool that is not empty.
C11_Witness ==
  \E c \in DOMAIN calls, w \in DOMAIN workers :
    /\ calls[c].kind = "update" /\ calls[c].pc = "await"
    /\ calls[c].worker > w
    /\ workers[w].status # "alive"
    /\ workers[calls[c].worker].inbox # <<>>
    /\ workers[calls[c].worker].inbox[1].type = "set"
    /\ DOMAIN workers[calls[c].worker].inbox[1].mempool # {}

\* the requests that await a reply of worker w
Outstanding(w) ==
  { c \in DOMAIN calls :
      calls[c].pc = "await" /\ calls[c].promise = "pending" /\ calls[c].worker = w }

\* C12 as stated: at most one request is outstanding on a worker at any
\* time: no worker has more than one unanswered message, nor more than one
\* request waiting for its reply.
C12_OneOutstanding ==
  \A w \in DOMAIN workers :
    /\ Len(workers[w].inbox) <= 1
    /\ Cardinality(Outstanding(w)) <= 1

\* C13: the published fields are of one generation. A step either leaves
\* mempoolBlocks and mempoolBlockDeltas as they are, or it is the save of a
\* call with saveResults = true and replaces both: the new deltas are
\* calculateMempoolDeltas(the blocks published before, the blocks published
\* now). So in every state a reader can see, the deltas are those between the
\* previous and the current published blocks.
C13_SameGeneration ==
  [][ IF ret'.saved
      THEN mempoolBlockDeltas' = CalculateMempoolDeltas(mempoolBlocks, mempoolBlocks')
      ELSE /\ mempoolBlocks' = mempoolBlocks
           /\ mempoolBlockDeltas' = mempoolBlockDeltas ]_vars

\* C13 witness: a template call saved blocks that differ from the published
\* ones, which were not empty.
C13_Witness ==
  /\ TemplateProjected /\ ret.saved
  /\ ret.prev # <<>> /\ mempoolBlocks # ret.prev

\* C14 as stated: when the worker fails while a $makeBlockTemplates or
\* $updateBlockTemplates call is pending, the call ends without an error and
\* without a save, $makeBlockTemplates returning the published
\* mempoolBlocks: a call that returned without a projection saved nothing,
\* $makeBlockTemplates returned this.mempoolBlocks, and a call whose worker
\* has failed is rejected and about to return.
C14_FailureReturnsSnapshot ==
  /\ (ret.op \in {"makeBlockTemplates", "updateBlockTemplates"} /\ ~ret.projected)
       => /\ ~ret.saved
          /\ ret.op = "makeBlockTemplates" =>
                (~ret.void /\ ret.blocks = mempoolBlocks)
  /\ \A c \in DOMAIN calls :
       (calls[c].pc = "await" /\ workers[calls[c].worker].status # "alive")
         => (calls[c].promise = "rejected" /\ c \in Range(microtasks))

\* the message posted by the call that started in the step
PostedMessage ==
  LET inbox == workers'[calls'[Len(calls')].worker].inbox IN inbox[Len(inbox)]

\* C15 as stated: transactions with deleteAfter set are not in the 'set'
\* message of $makeBlockTemplates, not in the added list of the 'update'
\* message of $updateBlockTemplates, and not in a block returned by
\* updateMempoolBlocks.
C15_TombstonesExcluded ==
  [][ /\ TemplateCallStarted =>
           \A id \in DOMAIN PostedMessage.mempool \cup TxidsOf(PostedMessage.added) :
             ~mempool[id].deleteAfter
      /\ ret'.op = "updateMempoolBlocks" =>
           \A id \in Range(BlockIds(ret'.blocks)) : ~mempool[id].deleteAfter ]_vars

\* the transaction lies past the weight cap: in (feePerVsize desc, txid asc)
\* order the running weight including it exceeds
\* BLOCK_WEIGHT_UNITS x MEMPOOL_BLOCKS_AMOUNT
PastCap(id) ==
  LET order == FirstSort(mempoolKeys, mempool)
      txs   == [k \in DOMAIN order |-> mempool[order[k]]]
      k     == CHOOSE n \in DOMAIN order : order[n] = id
  IN WeightUpTo(txs, k) > BLOCK_WEIGHT_UNITS * MEMPOOL_BLOCKS_AMOUNT

\* C16 as stated: after updateMempoolBlocks, whatever calls came before, a
\* transaction past the weight cap was not passed to the resolver
\* (cpfpChecked is false) and its effectiveFeePerVsize is its feePerVsize; a
\* transaction within the cap was passed to the resolver.
C16_PastCapKeepsOwnRate ==
  ret.op = "updateMempoolBlocks" =>
    \A id \in DOMAIN mempool :
      IF PastCap(id)
      THEN /\ ~mempool[id].cpfpChecked
           /\ mempool[id].effectiveFeePerVsize = mempool[id].feePerVsize
      ELSE mempool[id].cpfpChecked

EmptyDelta == [added |-> <<>>, removed |-> <<>>, changed |-> <<>>]

\* the blocks are packed in (effectiveFeePerVsize desc, txid asc) order
InFinalOrder(blocks) ==
  \A k, m \in DOMAIN BlockIds(blocks) :
    k < m => FinalBefore(mempool[BlockIds(blocks)[k]], mempool[BlockIds(blocks)[m]])

\* the second of two consecutive updateMempoolBlocks(mempool, true) calls on
\* an unchanged mempool has just returned
SecondSaveReturned ==
  /\ ret.op = "updateMempoolBlocks" /\ ret.saved
  /\ Len(calls) = 2
  /\ ret.prev # <<>>

\* C17: the second of two consecutive saving updateMempoolBlocks calls on an
\* unchanged mempool returns the blocks of the first (same transactionIds,
\* same transactions and rates), publishes deltas that are all empty, and
\* the blocks are in (effectiveFeePerVsize desc, txid asc) order.
C17_RepeatIsQuiet ==
  SecondSaveReturned =>
    /\ ret.blocks = ret.prev
    /\ \A i \in DOMAIN mempoolBlockDeltas : mempoolBlockDeltas[i] = EmptyDelta
    /\ InFinalOrder(ret.blocks)

\* C17 witness: the second call has returned for a mempool in which a parent
\* is lifted above its own rate by a descendant, and published its deltas.
C17_Witness ==
  /\ SecondSaveReturned
  /\ mempoolBlockDeltas # <<>>
  /\ \E id \in DOMAIN mempool :
       /\ mempool[id].bestDescendant # NoRelative
       /\ RateLess(mempool[id].feePerVsize, mempool[id].effectiveFeePerVsize)
       /\ id \in Range(BlockIds(ret.blocks))
  /\ \E id \in DOMAIN mempool : mempool[id].ancestors # <<>>

\* the indices of block b whose transaction the claim says is retained: the
\* weight of the block up to and including it, plus its own weight, is at
\* most 1.2 x BLOCK_WEIGHT_UNITS
RetainedAt(blocks, b) ==
  { k \in DOMAIN blocks[b].transactionIds :
      10 * (BlockWeight([blocks EXCEPT ![b].transactionIds = SubSeq(@, 1, k)],
                        b, mempool)
            + mempool[blocks[b].transactionIds[k]].weight)
        <= 12 * BLOCK_WEIGHT_UNITS }

\* C18: in every block built by dataToMempoolBlocks, transactions holds
\* exactly the stripped transactions at the retained indices, in packing
\* order; their weight is at most 1.2 x BLOCK_WEIGHT_UNITS; nTx, totalFees,
\* blockVSize and transactionIds cover all the transactions of the block.
C18_RetainedTransactions ==
  ret.op = "updateMempoolBlocks" =>
    \A b \in DOMAIN ret.blocks :
      LET blk  == ret.blocks[b]
          ids  == blk.transactionIds
          kept == RetainedAt(ret.blocks, b)
      IN /\ Len(blk.transactions) = Cardinality(kept)
         /\ \A n \in DOMAIN blk.transactions :
              LET k == CHOOSE x \in kept : Cardinality({m \in kept : m < x}) = n - 1
              IN blk.transactions[n] = StripTransaction(mempool[ids[k]])
         /\ 10 * SumSeq([n \in DOMAIN blk.transactions |->
                           mempool[blk.transactions[n].txid].weight])
              <= 12 * BLOCK_WEIGHT_UNITS
         /\ blk.nTx = Len(ids)
         /\ blk.totalFees = SumSeq([k \in DOMAIN ids |-> mempool[ids[k]].fee])
         /\ blk.blockVSize = BlockWeight(ret.blocks, b, mempool) \div 4

\* C18 witness: a block of three transactions of which some are retained and
\* some are not.
C18_Witness ==
  /\ ret.op = "updateMempoolBlocks"
  /\ \E b \in DOMAIN ret.blocks :
       /\ ret.blocks[b].nTx = 3
       /\ Len(ret.blocks[b].transactions) \in {1, 2}

\* the weight of the heaviest transaction of block b (0 for an empty block)
HeaviestIn(blocks, b) ==
  LET ws == { mempool[id].weight : id \in Range(blocks[b].transactionIds) }
  IN IF ws = {} THEN 0 ELSE CHOOSE w \in ws : \A v \in ws : v <= w

\* C19 as stated: in a block of total weight at most BLOCK_WEIGHT_UNITS no
\* transaction is dropped: the txids of transactions are transactionIds.
C19_NothingDroppedUnderBlockWeight ==
  ret.op = "updateMempoolBlocks" =>
    \A b \in DOMAIN ret.blocks :
      BlockWeight(ret.blocks, b, mempool) <= BLOCK_WEIGHT_UNITS
        => TxidSeq(ret.blocks[b].transactions) = ret.blocks[b].transactionIds

\* C19 amended: in a block whose total weight plus the weight of its
\* heaviest transaction is at most 1.2 x BLOCK_WEIGHT_UNITS no transaction is
\* dropped: the txids of transactions are transactionIds.
C19_NothingDroppedWithHeadroom ==
  ret.op = "updateMempoolBlocks" =>
    \A b \in DOMAIN ret.blocks :
      10 * (BlockWeight(ret.blocks, b, mempool) + HeaviestIn(ret.blocks, b))
          <= 12 * BLOCK_WEIGHT_UNITS
        => TxidSeq(ret.blocks[b].transactions) = ret.blocks[b].transactionIds

\* C19 witness: a block of three transactions whose weight with that of the
\* heaviest is exactly 1.2 x BLOCK_WEIGHT_UNITS.
C19_Witness ==
  /\ ret.op = "updateMempoolBlocks"
  /\ \E b \in DOMAIN ret.blocks :
       /\ ret.blocks[b].nTx = 3
       /\ 10 * (BlockWeight(ret.blocks, b, mempool) + HeaviestIn(ret.blocks, b))
            = 12 * BLOCK_WEIGHT_UNITS

\* C20 as stated: for a mempool that is not empty every block returned by
\* updateMempoolBlocks holds at least one transaction and block 0 begins
\* with the first transaction of the packing order, also when that
\* transaction alone outweighs BLOCK_WEIGHT_UNITS; for an empty mempool no
\* block is returned.
C20_NoEmptyBlock ==
  ret.op = "updateMempoolBlocks" =>
    IF DOMAIN mempool = {}
    THEN ret.blocks = <<>>
    ELSE /\ ret.blocks # <<>>
         /\ \A b \in DOMAIN ret.blocks :
              ret.blocks[b].nTx >= 1 /\ ret.blocks[b].transactionIds # <<>>
         /\ Head(ret.blocks[1].transactionIds) = Head(FinalSort(mempoolKeys, mempool))
====
